---- MODULE Spec2Model ----
(***************************************************************************)
(* DE-9C autofill tool (de9c_gui_updated.py): the settings store           *)
(* (load_defaults / save_defaults), the form handler run_fill and the      *)
(* page filling procedure fill_de9c.                                       *)
(*                                                                         *)
(* Text that the program inspects character by character (typed numbers,   *)
(* monetary cells) is a sequence of one-character strings; text that is    *)
(* only stored and compared (field names, field values, paths) is a        *)
(* string.  Join turns the former into the latter.                         *)
(***************************************************************************)
EXTENDS Integers, Sequences, FiniteSets, TLC

\* ------------------------------------------------------------------------
\* Bounds of the model
\* ------------------------------------------------------------------------

\* Largest number of employee rows in a payroll CSV.
MaxEmployees == 15

\* ------------------------------------------------------------------------
\* Program constants
\* ------------------------------------------------------------------------

ROWS_PER_PAGE == 7

\* ------------------------------------------------------------------------
\* Character-level text
\* ------------------------------------------------------------------------

Digits == <<"0", "1", "2", "3", "4", "5", "6", "7", "8", "9">>

IsDigit(c) == \E d \in 1..10 : Digits[d] = c

DigitVal(c) == (CHOOSE d \in 1..10 : Digits[d] = c) - 1

RECURSIVE Join(_)
Join(cs) == IF Len(cs) = 0 THEN "" ELSE Head(cs) \o Join(Tail(cs))

IsSpace(c) == c = " "

RECURSIVE LStrip(_)
LStrip(cs) ==
  IF Len(cs) > 0 /\ IsSpace(Head(cs)) THEN LStrip(Tail(cs)) ELSE cs

RECURSIVE RStrip(_)
RStrip(cs) ==
  IF Len(cs) > 0 /\ IsSpace(cs[Len(cs)]) THEN RStrip(SubSeq(cs, 1, Len(cs) - 1)) ELSE cs

\* str.strip()
Strip(cs) == RStrip(LStrip(cs))

\* str.replace(ch, "")
Remove(cs, ch) == SelectSeq(cs, LAMBDA c : c # ch)

AllDigits(cs) == Len(cs) > 0 /\ \A i \in 1..Len(cs) : IsDigit(cs[i])

RECURSIVE DigitsToNat(_)
DigitsToNat(cs) ==
  IF Len(cs) = 0 THEN 0
  ELSE 10 * DigitsToNat(SubSeq(cs, 1, Len(cs) - 1)) + DigitVal(cs[Len(cs)])

RECURSIVE NatToDigits(_)
NatToDigits(n) ==
  IF n < 10 THEN <<Digits[n + 1]>>
  ELSE NatToDigits(n \div 10) \o <<Digits[(n % 10) + 1]>>

\* str(n) for an integer n
IntToChars(n) == IF n < 0 THEN <<"-">> \o NatToDigits(-n) ELSE NatToDigits(n)

HasSign(cs) == Len(cs) > 0 /\ Head(cs) \in {"+", "-"}

Unsigned(cs) == IF HasSign(cs) THEN Tail(cs) ELSE cs

\* int(text): surrounding blanks are ignored, one sign is allowed, the rest
\* must be decimal digits; anything else raises ValueError.
IntParses(cs) == AllDigits(Unsigned(Strip(cs)))

IntOf(cs) ==
  LET s == Strip(cs)
      n == DigitsToNat(Unsigned(s))
  IN IF HasSign(s) /\ Head(s) = "-" THEN -n ELSE n

\* text[-2:]
LastTwo(cs) == IF Len(cs) <= 2 THEN cs ELSE SubSeq(cs, Len(cs) - 1, Len(cs))

\* ------------------------------------------------------------------------
\* Floating point amounts.  An amount is NaN or a number of thousandths.
\* The cells of the model carry at most three decimals and an even last
\* digit, so every sum is exact and never lies on a half cent.
\* ------------------------------------------------------------------------

NaN == [nan |-> TRUE, m |-> 0]

Amount(m) == [nan |-> FALSE, m |-> m]

FloatAdd(a, b) == IF a.nan \/ b.nan THEN NaN ELSE Amount(a.m + b.m)

DotAt(cs) == IF \E i \in 1..Len(cs) : cs[i] = "."
             THEN CHOOSE i \in 1..Len(cs) : cs[i] = "." /\ \A j \in 1..(i - 1) : cs[j] # "."
             ELSE 0

IntPart(cs) == IF DotAt(cs) = 0 THEN cs ELSE SubSeq(cs, 1, DotAt(cs) - 1)

FracPart(cs) == IF DotAt(cs) = 0 THEN <<>> ELSE SubSeq(cs, DotAt(cs) + 1, Len(cs))

IsDecimal(cs) ==
  /\ \A i \in 1..Len(IntPart(cs)) : IsDigit(IntPart(cs)[i])
  /\ \A i \in 1..Len(FracPart(cs)) : IsDigit(FracPart(cs)[i])
  /\ Len(IntPart(cs)) + Len(FracPart(cs)) >= 1
  /\ Len(FracPart(cs)) <= 3

Thousandths(cs) ==
  LET f == FracPart(cs) \o SubSeq(<<"0", "0", "0">>, 1, 3 - Len(FracPart(cs)))
  IN 1000 * DigitsToNat(IntPart(cs)) + DigitsToNat(f)

IsNanText(cs) == Unsigned(cs) \in {<<"n", "a", "n">>, <<"N", "a", "N">>, <<"N", "A", "N">>}

\* float(text): [ok |-> FALSE] stands for ValueError.
ParseFloat(cs) ==
  LET s == Strip(cs)
      u == Unsigned(s)
  IN IF IsNanText(s) THEN [ok |-> TRUE, val |-> NaN]
     ELSE IF IsDecimal(u)
          THEN [ok |-> TRUE,
                val |-> Amount(IF HasSign(s) /\ Head(s) = "-"
                               THEN -Thousandths(u) ELSE Thousandths(u))]
          ELSE [ok |-> FALSE, val |-> Amount(0)]

TwoDigits(n) == <<Digits[(n \div 10) + 1], Digits[(n % 10) + 1]>>

\* f"{x:.2f}"
FormatMoney(x) ==
  IF x.nan THEN "nan"
  ELSE LET a == IF x.m < 0 THEN -x.m ELSE x.m
           cents == (a + 5) \div 10
           body == Join(NatToDigits(cents \div 100) \o <<".">> \o TwoDigits(cents % 100))
       IN IF x.m < 0 THEN "-" \o body ELSE body

RECURSIVE DropTrailingZeros(_)
DropTrailingZeros(cs) ==
  IF Len(cs) > 1 /\ cs[Len(cs)] = "0"
  THEN DropTrailingZeros(SubSeq(cs, 1, Len(cs) - 1)) ELSE cs

ThreeDigits(n) == <<Digits[(n \div 100) + 1]>> \o TwoDigits(n % 100)

\* str(x) of a float64 that holds m thousandths
FloatRepr(m) ==
  LET a == IF m < 0 THEN -m ELSE m
      body == NatToDigits(a \div 1000) \o <<".">> \o DropTrailingZeros(ThreeDigits(a % 1000))
  IN IF m < 0 THEN <<"-">> \o body ELSE body

\* ------------------------------------------------------------------------
\* Utility functions
\* ------------------------------------------------------------------------

clean_money(x) == Strip(Remove(Remove(x, "$"), ","))

suffix_for_row(i) == IF i = 1 THEN "" ELSE ToString(i - 1)

ValidQuarter(q) == q \in {1, 2, 3, 4}

\* [ok |-> FALSE] stands for ValueError("Quarter must be 1-4").
calc_quarter_end(year_full, q) ==
  LET yy == Join(LastTwo(IntToChars(year_full)))
  IN IF q = 1 THEN [ok |-> TRUE, val |-> "03/31/" \o yy]
     ELSE IF q = 2 THEN [ok |-> TRUE, val |-> "06/30/" \o yy]
     ELSE IF q = 3 THEN [ok |-> TRUE, val |-> "09/30/" \o yy]
     ELSE IF q = 4 THEN [ok |-> TRUE, val |-> "12/31/" \o yy]
     ELSE [ok |-> FALSE, val |-> ""]

quarter_months(q) ==
  IF q \in 1..4 THEN [ok |-> TRUE, val |-> <<3 * q - 2, 3 * q - 1, 3 * q>>]
  ELSE [ok |-> FALSE, val |-> <<0, 0, 0>>]

\* ------------------------------------------------------------------------
\* Payroll CSV files and the pandas loader
\* ------------------------------------------------------------------------

\* The monetary cells a payroll CSV of the model may hold: an empty cell,
\* a word, an amount below one cent, a currency-formatted amount, a bare
\* currency sign, a whole number.
RawCells ==
  << <<>>,
     <<"a", "b", "c">>,
     <<"0", ".", "0", "0", "4">>,
     <<"$", "1", ",", "2", "3", "4", ".", "5", "6">>,
     <<"$", " ">>,
     <<"2", "5", "0">> >>

\* The cell of the three monetary columns in an ordinary row.
BaseCells ==
  << <<"1", "2", "3", "4", ".", "5", "6">>,
     <<"1", "0", "0", "0">>,
     <<"1", "2", ".", "5", "0">> >>

\* Distance between the rows of a column that hold the chosen cell.
OddStride == 7

MoneyCell(i, c, k) == IF (i - c) % OddStride = 0 THEN RawCells[k] ELSE BaseCells[c]

CsvRow(i, k) ==
  [SSN    |-> "S" \o ToString(i),
   First  |-> "F" \o ToString(i),
   Middle |-> IF i % 2 = 0 THEN <<" ", "Q", " ">> ELSE <<>>,
   Last   |-> "L" \o ToString(i),
   money  |-> [c \in 1..3 |-> MoneyCell(i, c, k)]]

CsvKinds == {<<n, k>> : n \in 0..MaxEmployees, k \in 1..Len(RawCells)}

\* What pd.read_csv may find at the CSV path: a payroll file with its rows,
\* or (ok FALSE) no readable file with the required columns, in which case
\* pd.read_csv or df[col] raises.
PayrollFile(s) == [ok |-> TRUE, rows |-> [i \in 1..s[1] |-> CsvRow(i, s[2])]]

Unreadable == [ok |-> FALSE, rows |-> <<>>]

CsvFiles == {PayrollFile(s) : s \in CsvKinds} \cup {Unreadable}

\* pd.read_csv reads an empty cell as NaN and gives a column a numeric dtype
\* when every other cell of it is a number.
IsMissing(cell) == Len(cell) = 0

IsNumberCell(cell) == ~HasSign(cell) /\ IsDecimal(cell)

IsIntCell(cell) == AllDigits(cell)

ColumnDtype(cells) ==
  IF \E i \in 1..Len(cells) : ~IsMissing(cells[i]) /\ ~IsNumberCell(cells[i])
  THEN "object"
  ELSE IF \A i \in 1..Len(cells) : IsIntCell(cells[i]) THEN "int64" ELSE "float64"

\* df[col].astype(str): the text of one cell of a column of the given dtype.
AsTypeStr(dtype, cell) ==
  IF IsMissing(cell) THEN <<"n", "a", "n">>
  ELSE IF dtype = "object" THEN cell
  ELSE IF dtype = "int64" THEN NatToDigits(DigitsToNat(cell))
  ELSE FloatRepr(Thousandths(cell))

\* fill_de9c, "Clean money fields": column c of the data frame after
\* df[col].astype(str).map(clean_money).
CleanColumn(rows, c) ==
  LET cells == [i \in 1..Len(rows) |-> rows[i].money[c]]
      dtype == ColumnDtype(cells)
  IN [i \in 1..Len(rows) |-> clean_money(AsTypeStr(dtype, cells[i]))]

MiddleValue(cell) == IF IsMissing(cell) THEN "" ELSE Join(Strip(cell))

\* fill_de9c, "Build employee list": each employee is the list
\* [SSN, First, MI, Last, Wages, PITWages, Withheld].
BuildEmployees(rows) ==
  LET w == CleanColumn(rows, 1)
      p == CleanColumn(rows, 2)
      h == CleanColumn(rows, 3)
  IN [i \in 1..Len(rows) |->
        [ident |-> <<rows[i].SSN, rows[i].First, MiddleValue(rows[i].Middle), rows[i].Last>>,
         money |-> <<w[i], p[i], h[i]>>]]

\* str(val) of the j-th entry of an employee, j in 1..7.
EmpText(emp, j) == IF j <= 4 THEN emp.ident[j] ELSE Join(emp.money[j - 4])

\* float(cell or "0") under try/except: the amount added to a page total.
CellAmount(cell) ==
  LET r == ParseFloat(IF Len(cell) = 0 THEN <<"0">> ELSE cell)
  IN IF r.ok THEN r.val ELSE Amount(0)

\* math.ceil(n / ROWS_PER_PAGE)
NumPages(n) == (n + ROWS_PER_PAGE - 1) \div ROWS_PER_PAGE

\* A slicing that starts every page one row early (start = page_idx *
\* (ROWS_PER_PAGE - 1)).
PageSliceOverlapping(employees, page_idx) ==
  LET start == page_idx * (ROWS_PER_PAGE - 1)
      stop == IF start + ROWS_PER_PAGE < Len(employees)
              THEN start + ROWS_PER_PAGE ELSE Len(employees)
  IN SubSeq(employees, start + 1, stop)

\* employees[start:start + ROWS_PER_PAGE] with start = page_idx * ROWS_PER_PAGE
PageSlice(employees, page_idx) ==
  LET start == page_idx * ROWS_PER_PAGE
      stop == IF start + ROWS_PER_PAGE < Len(employees)
              THEN start + ROWS_PER_PAGE ELSE Len(employees)
  IN SubSeq(employees, start + 1, stop)

\* ------------------------------------------------------------------------
\* The form template and its fields
\* ------------------------------------------------------------------------

\* FIELD_MAP, in key order SSN, First, MI, Last, Wages, PITWages, Withheld:
\* the pattern "<name>{suffix}" is the name followed by the row suffix.
FIELD_MAP ==
  <<"SSN", "First Name", "MI", "Last Name",
    "Total Subject Wages", "PIT Wages", "PIT Withheld">>

RowField(j, r) == FIELD_MAP[j] \o suffix_for_row(r)

HeaderFields ==
  <<"Year", "Quarter", "Employer Account No", "Date1", "Date2",
    "1st Month", "2nd Month", "3rd Month", "Page number", "Of Page number">>

PageTotalFields ==
  <<"Total Subject Wages This Page", "Total PIT Wages This Page",
    "Total PIT Withheld This Page">>

GrandTotalFields ==
  <<"Grand Total Subject Wages", "Grand Total PIT Wages", "Grand Total PIT Withheld">>

SignatureFields == <<"Signature1", "0", "Phone Number", "Date5">>

\* A widget annotation of the page: its /T name (if it has one) and its /V
\* value.  /AS is always written together with /V and carries the same text.
Annot(name) == [hasT |-> TRUE, T |-> name, V |-> "stale"]

Unnamed == [hasT |-> FALSE, T |-> "", V |-> "stale"]

RECURSIVE Flatten(_)
Flatten(ss) == IF Len(ss) = 0 THEN <<>> ELSE Head(ss) \o Flatten(Tail(ss))

Named(names) == [i \in 1..Len(names) |-> Annot(names[i])]

RowFieldNames(keys, rows) ==
  Flatten([r \in 1..Len(rows) |-> [j \in 1..Len(keys) |-> RowField(keys[j], rows[r])]])

\* The DE-9C page: every field the program knows.
FullAnnots ==
  Named(HeaderFields) \o Named(RowFieldNames(<<1, 2, 3, 4, 5, 6, 7>>, <<1, 2, 3, 4, 5, 6, 7>>))
  \o Named(PageTotalFields) \o Named(GrandTotalFields) \o Named(SignatureFields)

\* A layout variant: no Year, no MI column, one unnamed widget, only the
\* wages totals, no signature date.
VariantAnnots ==
  Named(<<"Quarter", "Page number", "Of Page number">>) \o <<Unnamed>>
  \o Named(RowFieldNames(<<1, 2, 4, 5, 7>>, <<1, 2, 3, 4, 5, 6, 7>>))
  \o Named(<<"Total Subject Wages This Page", "Grand Total Subject Wages",
             "Signature1", "0">>)

\* A form whose designer already used names that end in a page tag.
TaggedAnnots ==
  Named(<<"Year", "Year__p2", "SSN", "SSN__p2", "SSN1", "PIT Wages", "PIT Wages__p3",
          "Total PIT Wages This Page", "Grand Total PIT Wages", "Signature1">>)

PdfPaths == {"de9c.pdf", "variant.pdf", "tagged.pdf", "flat.pdf"}

\* A path at which no readable PDF lies.
NoPdfPath == "missing.pdf"

\* PdfReader(template_path): ok is FALSE when the reader raises; annots is
\* page.get("/Annots") or [].
PdfFile(path) ==
  IF path = "de9c.pdf" THEN [ok |-> TRUE, acroForm |-> TRUE, annots |-> FullAnnots]
  ELSE IF path = "variant.pdf" THEN [ok |-> TRUE, acroForm |-> TRUE, annots |-> VariantAnnots]
  ELSE IF path = "tagged.pdf" THEN [ok |-> TRUE, acroForm |-> TRUE, annots |-> TaggedAnnots]
  ELSE IF path = "flat.pdf" THEN [ok |-> TRUE, acroForm |-> FALSE, annots |-> <<>>]
  ELSE [ok |-> FALSE, acroForm |-> FALSE, annots |-> <<>>]

\* lookup = {a["/T"][1:-1]: a for a in annots if a.get("/T")}: the names
\* in the dictionary, and the annotation a name stands for (the last one
\* that carries it).
InLookup(annots, name) == \E i \in 1..Len(annots) : annots[i].hasT /\ annots[i].T = name

Lookup(annots, name) ==
  CHOOSE i \in 1..Len(annots) :
    /\ annots[i].hasT /\ annots[i].T = name
    /\ \A j \in (i + 1)..Len(annots) : ~(annots[j].hasT /\ annots[j].T = name)

\* A run of updates "if name in lookup: lookup[name].update(PdfDict(V=val,
\* AS=val, AP=None))" in order, writes being the sequence of <<name, val>>.
\* keys are the annotations as they were when lookup was built, page the
\* annotations as they are now (renaming changes /T, not the dictionary).
\* The annotation a name stands for ends with the value of the last update
\* under that name; every other annotation stays as it is.
IsKey(keys, i) ==
  /\ keys[i].hasT
  /\ \A j \in (i + 1)..Len(keys) : ~(keys[j].hasT /\ keys[j].T = keys[i].T)

LastWrite(writes, name) ==
  CHOOSE w \in 1..Len(writes) :
    /\ writes[w][1] = name
    /\ \A v \in (w + 1)..Len(writes) : writes[v][1] # name

SetFields(page, keys, writes) ==
  [i \in 1..Len(page) |->
     IF IsKey(keys, i) /\ \E w \in 1..Len(writes) : writes[w][1] = keys[i].T
     THEN [page[i] EXCEPT !.V = writes[LastWrite(writes, keys[i].T)][2]]
     ELSE page[i]]

\* f"{m:02d}"
MonthText(m) == Join(TwoDigits(m))

\* A header written on the first page only.
HeaderWritesFirstPageOnly(args, page_idx, num_pages) ==
  IF page_idx > 0 THEN <<>>
  ELSE << <<"Year", Join(LastTwo(IntToChars(args.year_full)))>>,
          <<"Quarter", Join(IntToChars(args.quarter))>>,
          <<"Employer Account No", args.acct>>,
          <<"Date1", args.quarter_end>>, <<"Date2", args.quarter_end>>,
          <<"1st Month", MonthText(quarter_months(args.quarter).val[1])>>,
          <<"2nd Month", MonthText(quarter_months(args.quarter).val[2])>>,
          <<"3rd Month", MonthText(quarter_months(args.quarter).val[3])>>,
          <<"Page number", ToString(page_idx + 1)>>,
          <<"Of Page number", ToString(num_pages)>> >>

\* fill_de9c, "Header fields": written inside the page loop.
HeaderWrites(args, page_idx, num_pages) ==
  LET year2 == Join(LastTwo(IntToChars(args.year_full)))
      q == Join(IntToChars(args.quarter))
      mm == quarter_months(args.quarter).val
  IN << <<"Year", year2>>, <<"Quarter", q>>,
        <<"Employer Account No", args.acct>>,
        <<"Date1", args.quarter_end>>, <<"Date2", args.quarter_end>>,
        <<"1st Month", MonthText(mm[1])>>, <<"2nd Month", MonthText(mm[2])>>,
        <<"3rd Month", MonthText(mm[3])>>,
        <<"Page number", ToString(page_idx + 1)>>,
        <<"Of Page number", ToString(num_pages)>> >>

\* fill_de9c, "Rows": the field writes of the employees of one page.
RowWrites(page_emps) ==
  Flatten([r \in 1..Len(page_emps) |->
             [j \in 1..Len(FIELD_MAP) |-> <<RowField(j, r), EmpText(page_emps[r], j)>>]])

\* A clearing loop that starts one row late (range(len(page_emps) + 2, ...)).
BlankRowsFromSecond(page_emps) ==
  [b \in 1..(ROWS_PER_PAGE - Len(page_emps) - 1) |-> Len(page_emps) + 1 + b]

\* fill_de9c, "Clear unused rows on last page".
BlankRows(page_emps) ==
  [b \in 1..(ROWS_PER_PAGE - Len(page_emps)) |-> Len(page_emps) + b]

BlankWrites(page_emps) ==
  LET rows == BlankRows(page_emps)
  IN Flatten([b \in 1..Len(rows) |->
                [j \in 1..Len(FIELD_MAP) |-> <<RowField(j, rows[b]), "">>]])

\* The three page sums page_w, page_p, page_h of one page.
RECURSIVE SumCells(_, _)
SumCells(page_emps, c) ==
  IF Len(page_emps) = 0 THEN Amount(0)
  ELSE LET n == Len(page_emps)
       IN FloatAdd(SumCells(SubSeq(page_emps, 1, n - 1), c),
                   CellAmount(page_emps[n].money[c]))

PageSums(page_emps) == [c \in 1..3 |-> SumCells(page_emps, c)]

\* f"__p{page_idx + 1}"
PageTag(page_idx) == "__p" \o ToString(page_idx + 1)

\* fill_de9c, "Rename page field names (except the first page)".
NeedsRename(page_idx) == page_idx > 0

RenamePage(page, page_idx) ==
  IF NeedsRename(page_idx)
  THEN [i \in 1..Len(page) |->
          IF page[i].hasT THEN [page[i] EXCEPT !.T = page[i].T \o PageTag(page_idx)]
          ELSE page[i]]
  ELSE page

\* fill_de9c, "Page totals (I/J/K)": written after the renaming, through
\* the dictionary built before it.
PageTotalWrites(sums) ==
  [c \in 1..3 |-> <<PageTotalFields[c], FormatMoney(sums[c])>>]

\* One pass of the page loop over a fresh copy of the template.
FillOnePage(annots, args, page_emps, page_idx, num_pages) ==
  LET a1 == SetFields(annots, annots, HeaderWrites(args, page_idx, num_pages))
      a2 == SetFields(a1, annots, RowWrites(page_emps))
      a3 == SetFields(a2, annots, BlankWrites(page_emps))
      a4 == RenamePage(a3, page_idx)
  IN SetFields(a4, annots, PageTotalWrites(PageSums(page_emps)))

\* fill_de9c, "Grand totals & signature on Page 1".
GrandTotalWrites(grand) ==
  [c \in 1..3 |-> <<GrandTotalFields[c], FormatMoney(grand[c])>>]

SignatureWrites(args) ==
  << <<"Signature1", args.sig_name>>, <<"0", args.sig_title>>,
     <<"Phone Number", args.sig_phone>>, <<"Date5", args.sig_date>> >>

FinishFirstPage(page, args, grand) ==
  SetFields(page, page, GrandTotalWrites(grand) \o SignatureWrites(args))

\* ------------------------------------------------------------------------
\* Config (JSON) helpers
\* ------------------------------------------------------------------------

\* A dictionary is a function from its keys.
DictSet(d, k, v) == [x \in (DOMAIN d) \cup {k} |-> IF x = k THEN v ELSE d[x]]

SettingsKeys ==
  {"year", "quarter", "employer_account", "signature_name", "signature_title",
   "signature_phone"}

\* The hard-coded defaults of load_defaults.
BuiltinDefaults ==
  [year             |-> <<"2", "0", "2", "4">>,
   quarter          |-> <<"2">>,
   employer_account |-> "14503726",
   signature_name   |-> "EDUARDO b PEREZ",
   signature_title  |-> "PRESIDENT",
   signature_phone  |-> "818-618-1851"]

\* The content of the settings file: absent; garbage (unreadable, or no
\* JSON text); a JSON object with its members <<key, value>> in order; a
\* JSON array with its elements in order, an element being a two-element
\* array <<key, value>> or something else (<<>>); or another JSON value
\* (a number, true, null).
Absent == [kind |-> "absent", items |-> <<>>]

Garbage == [kind |-> "garbage", items |-> <<>>]

JsonObject(items) == [kind |-> "object", items |-> items]

JsonArray(items) == [kind |-> "array", items |-> items]

JsonScalar == [kind |-> "scalar", items |-> <<>>]

\* dict.update(data), item by item; raised tells whether it stopped with an
\* exception, d is the dictionary as the exception left it.
RECURSIVE UpdateItems(_, _)
UpdateItems(d, items) ==
  IF Len(items) = 0 THEN [d |-> d, raised |-> FALSE]
  ELSE IF Len(Head(items)) # 2 THEN [d |-> d, raised |-> TRUE]
  ELSE UpdateItems(DictSet(d, Head(items)[1], Head(items)[2]), Tail(items))

DictUpdate(d, data) ==
  IF data.kind \in {"object", "array"} THEN UpdateItems(d, data.items)
  ELSE [d |-> d, raised |-> TRUE]

\* load_defaults(): the try block covers open, json.load and update; its
\* except clause passes, and the dictionary is returned as it then is.
load_defaults(file) ==
  IF file.kind = "absent" THEN BuiltinDefaults
  ELSE IF file.kind = "garbage" THEN BuiltinDefaults
  ELSE DictUpdate(BuiltinDefaults, file).d

\* The data save_defaults writes.
SavedSettings(year, quarter, account, sig_name, sig_title, sig_phone) ==
  JsonObject(<< <<"year", year>>, <<"quarter", quarter>>,
                <<"employer_account", account>>, <<"signature_name", sig_name>>,
                <<"signature_title", sig_title>>, <<"signature_phone", sig_phone>> >>)

\* A save_defaults without its try/except: the exception leaves it.
save_defaults_uncaught(file, data, io) ==
  [file   |-> IF io = "ok" THEN data ELSE IF io = "dump" THEN Garbage ELSE file,
   raised |-> io # "ok"]

\* save_defaults(...): io is what the file system does, "ok", "open" (open
\* raises, the file stays as it was) or "dump" (the write breaks off and
\* leaves a truncated file).  The exception is caught and printed.
save_defaults(file, data, io) ==
  [file   |-> IF io = "ok" THEN data ELSE IF io = "dump" THEN Garbage ELSE file,
   raised |-> FALSE]

IoOutcomes == {"ok", "open", "dump"}

\* The settings files a start of the program may find.
ConfigFiles ==
  {Absent, Garbage, JsonScalar,
   JsonObject(<<>>),
   JsonObject(<< <<"year", <<"2", "0", "2", "3">> >>, <<"theme", "dark">> >>),
   JsonObject(<< <<"quarter", <<"5">> >> >>),
   JsonArray(<< <<"year", <<"1", "9", "9", "9">> >> >>),
   JsonArray(<< <<"year", <<"1", "9", "9", "9">> >>, <<>> >>)}

\* ------------------------------------------------------------------------
\* State
\* ------------------------------------------------------------------------

VARIABLES
  pc,            \* where the program is: "boot", "idle" (the form waits), and
                 \* inside run_fill / fill_de9c "load", "pages", "finish",
                 \* "returned", "raised"
  configFile,    \* content of CONFIG_FILE, de9c_defaults.json
  defaults,      \* run_gui's dictionary of defaults (empty before it is loaded)
  payrolls,      \* what may lie at the CSV path when it is read
  outFile,       \* the file at the output path: "absent" or "written"
  csv_var, pdf_var, out_var,                   \* the three path entries
  year_var, qtr_var, acct_var, qend_var,       \* form entries
  name_var, title_var, phone_var, date_var,    \* signature entries
  args,          \* the arguments of the running fill_de9c call
  df,            \* rows of the data frame as read from the CSV
  employees, num_pages, page_idx, filled_pages, grand,   \* locals of fill_de9c
  writer,        \* the PdfWriter: its pages and the NeedAppearances flag of its trailer
  error,         \* text of the exception that left fill_de9c ("" if none)
  notice,        \* the message box shown last
  fillStatus,    \* fill_de9c in the latest run_fill: "none", "running", "ok", "failed"
  saved          \* save_defaults in the latest run_fill: "none" or its io outcome

gui == <<csv_var, pdf_var, out_var, year_var, qtr_var, acct_var, qend_var,
         name_var, title_var, phone_var, date_var>>

locals == <<args, df, employees, num_pages, page_idx, filled_pages, grand, writer, error>>

vars == <<pc, payrolls, configFile, defaults, outFile, gui, locals, notice, fillStatus, saved>>

NoArgs ==
  [year_full |-> 0, quarter |-> 0, acct |-> "", quarter_end |-> "",
   sig_name |-> "", sig_title |-> "", sig_phone |-> "", sig_date |-> ""]

ZeroTotals == <<Amount(0), Amount(0), Amount(0)>>

NoWriter == [pages |-> <<>>, needAppearances |-> FALSE]

NoLocals ==
  /\ args = NoArgs /\ df = <<>> /\ employees = <<>> /\ num_pages = 0 /\ page_idx = 0
  /\ filled_pages = <<>> /\ grand = ZeroTotals /\ writer = NoWriter /\ error = ""

NoNotice == [kind |-> "none", text |-> ""]

ShowError(text) == [kind |-> "error", text |-> text]

ShowInfo(text) == [kind |-> "info", text |-> text]

Today == "11/04/26"

\* The state at the start of the program, given the payroll files and the
\* settings files it may meet.
InitWith(csvs, configs) ==
  /\ pc = "boot"
  /\ payrolls = csvs
  /\ configFile \in configs
  /\ defaults = <<>>
  /\ outFile = "absent"
  /\ csv_var = "" /\ pdf_var = "" /\ out_var = ""
  /\ year_var = <<>> /\ qtr_var = <<>> /\ acct_var = "" /\ qend_var = <<>>
  /\ name_var = "" /\ title_var = "" /\ phone_var = "" /\ date_var = ""
  /\ NoLocals
  /\ notice = NoNotice /\ fillStatus = "none" /\ saved = "none"

\* A first start, with no settings file yet, and any payroll file.
Init == InitWith(CsvFiles, {Absent})

\* A later start, with any settings file, and a short payroll file.
InitSettings == InitWith({PayrollFile(<<1, 6>>), PayrollFile(<<0, 6>>), Unreadable}, ConfigFiles)

\* ------------------------------------------------------------------------
\* GUI
\* ------------------------------------------------------------------------

\* run_gui(): load the defaults and build the form.
RunGui ==
  /\ pc = "boot"
  /\ defaults' = load_defaults(configFile)
  /\ year_var' = defaults'["year"]
  /\ qtr_var' = defaults'["quarter"]
  /\ acct_var' = defaults'["employer_account"]
  /\ name_var' = defaults'["signature_name"]
  /\ title_var' = defaults'["signature_title"]
  /\ phone_var' = defaults'["signature_phone"]
  /\ csv_var' = "" /\ pdf_var' = "" /\ out_var' = ""
  /\ qend_var' = <<>>
  /\ date_var' = Today
  /\ pc' = "idle"
  /\ UNCHANGED <<payrolls, configFile, outFile, locals, notice, fillStatus, saved>>

\* browse_csv(): a cancelled dialog returns "" and changes nothing.
browse_csv ==
  /\ pc = "idle"
  /\ \E path \in {"", "payroll.csv"} :
       csv_var' = IF path # "" THEN path ELSE csv_var
  /\ UNCHANGED <<pc, payrolls, configFile, defaults, outFile, pdf_var, out_var, year_var, qtr_var, acct_var,
                 qend_var, name_var, title_var, phone_var, date_var, locals, notice,
                 fillStatus, saved>>

browse_pdf ==
  /\ pc = "idle"
  /\ \E path \in {""} \cup PdfPaths \cup {NoPdfPath} :
       pdf_var' = IF path # "" THEN path ELSE pdf_var
  /\ UNCHANGED <<pc, payrolls, configFile, defaults, outFile, csv_var, out_var, year_var, qtr_var, acct_var,
                 qend_var, name_var, title_var, phone_var, date_var, locals, notice,
                 fillStatus, saved>>

browse_out ==
  /\ pc = "idle"
  /\ \E path \in {"", "out.pdf"} :
       out_var' = IF path # "" THEN path ELSE out_var
  /\ UNCHANGED <<pc, payrolls, configFile, defaults, outFile, csv_var, pdf_var, year_var, qtr_var, acct_var,
                 qend_var, name_var, title_var, phone_var, date_var, locals, notice,
                 fillStatus, saved>>

\* What the user may type into the "Tax Year" and "Quarter (1-4)" entries.
YearTexts == {<<"2", "0", "2", "4">>, <<"2", "0", "x", "4">>}

QuarterTexts == {<<"0">>, <<"2">>, <<"5">>, <<"Q", "2">>}

EditYear ==
  /\ pc = "idle"
  /\ \E text \in YearTexts : year_var' = text
  /\ UNCHANGED <<pc, payrolls, configFile, defaults, outFile, csv_var, pdf_var, out_var, qtr_var, acct_var,
                 qend_var, name_var, title_var, phone_var, date_var, locals, notice,
                 fillStatus, saved>>

EditQuarter ==
  /\ pc = "idle"
  /\ \E text \in QuarterTexts : qtr_var' = text
  /\ UNCHANGED <<pc, payrolls, configFile, defaults, outFile, csv_var, pdf_var, out_var, year_var, acct_var,
                 qend_var, name_var, title_var, phone_var, date_var, locals, notice,
                 fillStatus, saved>>

\* Checks that forget the output path.
ValidateSkipsOutput ==
  IF csv_var = "" THEN [ok |-> FALSE, text |-> "Please select a CSV file."]
  ELSE IF pdf_var = "" THEN [ok |-> FALSE, text |-> "Please select a DE-9C template PDF."]
  ELSE IF ~IntParses(year_var) THEN [ok |-> FALSE, text |-> "invalid literal for int()"]
  ELSE IF ~IntParses(qtr_var) THEN [ok |-> FALSE, text |-> "invalid literal for int()"]
  ELSE IF ~ValidQuarter(IntOf(qtr_var)) THEN [ok |-> FALSE, text |-> "Quarter must be 1-4."]
  ELSE [ok |-> TRUE, text |-> ""]

\* run_fill() up to the call of fill_de9c: [ok |-> FALSE] with the text of
\* the message box when the inputs are turned down.
Validate ==
  IF csv_var = "" THEN [ok |-> FALSE, text |-> "Please select a CSV file."]
  ELSE IF pdf_var = "" THEN [ok |-> FALSE, text |-> "Please select a DE-9C template PDF."]
  ELSE IF out_var = "" THEN [ok |-> FALSE, text |-> "Please choose an output PDF file."]
  ELSE IF ~IntParses(year_var) THEN [ok |-> FALSE, text |-> "invalid literal for int()"]
  ELSE IF ~IntParses(qtr_var) THEN [ok |-> FALSE, text |-> "invalid literal for int()"]
  ELSE IF ~ValidQuarter(IntOf(qtr_var)) THEN [ok |-> FALSE, text |-> "Quarter must be 1-4."]
  ELSE IF ~calc_quarter_end(IntOf(year_var), IntOf(qtr_var)).ok /\ Len(Strip(qend_var)) = 0
       THEN [ok |-> FALSE, text |-> "Quarter must be 1-4"]
  ELSE [ok |-> TRUE, text |-> ""]

\* qend_var.get().strip() or calc_quarter_end(year_full, q)
QuarterEnd ==
  IF Len(Strip(qend_var)) > 0 THEN Join(Strip(qend_var))
  ELSE calc_quarter_end(IntOf(year_var), IntOf(qtr_var)).val

\* run_fill(), the GENERATE button: the checks, then the call of fill_de9c.
run_fill ==
  /\ pc = "idle"
  /\ saved' = "none"
  /\ IF Validate.ok
     THEN /\ pc' = "load"
          /\ args' = [year_full |-> IntOf(year_var), quarter |-> IntOf(qtr_var),
                      acct |-> acct_var, quarter_end |-> QuarterEnd,
                      sig_name |-> name_var, sig_title |-> title_var,
                      sig_phone |-> phone_var, sig_date |-> date_var]
          /\ fillStatus' = "running"
          /\ notice' = NoNotice
     ELSE /\ pc' = "idle"
          /\ notice' = ShowError(Validate.text)
          /\ fillStatus' = "none"
          /\ UNCHANGED args
  /\ UNCHANGED <<payrolls, configFile, defaults, outFile, gui, df, employees, num_pages, page_idx,
                 filled_pages, grand, writer, error>>

\* ------------------------------------------------------------------------
\* fill_de9c
\* ------------------------------------------------------------------------

\* Load CSV, clean money fields, build employee list, count the pages,
\* month boxes.
FillLoad ==
  /\ pc = "load"
  /\ \E file \in payrolls :
       IF ~file.ok
       THEN /\ error' = "cannot read the CSV"
            /\ pc' = "raised"
            /\ fillStatus' = "failed"
            /\ UNCHANGED <<df, employees, num_pages>>
       ELSE /\ df' = file.rows
            /\ employees' = BuildEmployees(file.rows)
            /\ num_pages' = NumPages(Len(file.rows))
            /\ IF quarter_months(args.quarter).ok
               THEN /\ pc' = IF NumPages(Len(file.rows)) > 0 THEN "pages" ELSE "finish"
                    /\ UNCHANGED <<error, fillStatus>>
               ELSE /\ error' = "Quarter must be 1-4"
                    /\ pc' = "raised"
                    /\ fillStatus' = "failed"
  /\ page_idx' = 0
  /\ filled_pages' = <<>>
  /\ grand' = ZeroTotals
  /\ UNCHANGED <<payrolls, configFile, defaults, outFile, gui, args, writer, notice, saved>>

\* One pass of "for page_idx in range(num_pages)".
FillPage ==
  /\ pc = "pages"
  /\ page_idx < num_pages
  /\ LET reader == PdfFile(pdf_var)
         page_emps == PageSlice(employees, page_idx)
         sums == PageSums(page_emps)
     IN IF ~reader.ok
        THEN /\ error' = "cannot read the template"
             /\ pc' = "raised"
             /\ fillStatus' = "failed"
             /\ UNCHANGED <<page_idx, filled_pages, grand>>
        ELSE /\ filled_pages' =
                  Append(filled_pages,
                         [annots |-> FillOnePage(reader.annots, args, page_emps,
                                                  page_idx, num_pages),
                          acroForm |-> reader.acroForm,
                          page_emps |-> page_emps,
                          totals |-> sums])
             /\ grand' = [c \in 1..3 |-> FloatAdd(grand[c], sums[c])]
             /\ page_idx' = page_idx + 1
             /\ pc' = IF page_idx + 1 < num_pages THEN "pages" ELSE "finish"
             /\ UNCHANGED <<error, fillStatus>>
  /\ UNCHANGED <<payrolls, configFile, defaults, outFile, gui, args, df, employees, num_pages, writer,
                 notice, saved>>

\* What writer.write does with the output path.
WriteOutcomes == {"ok", "fail"}

\* Grand totals and signature on page 1, NeedAppearances, merge and write.
FillFinish ==
  /\ pc = "finish"
  /\ IF Len(filled_pages) = 0
     THEN /\ error' = "list index out of range"
          /\ pc' = "raised"
          /\ fillStatus' = "failed"
          /\ UNCHANGED <<filled_pages, writer, outFile>>
     ELSE /\ filled_pages' =
               [filled_pages EXCEPT ![1].annots = FinishFirstPage(@, args, grand)]
          /\ writer' = [pages |-> [p \in 1..Len(filled_pages) |-> filled_pages'[p].annots],
                         needAppearances |-> filled_pages[1].acroForm]
          /\ \E io \in WriteOutcomes :
               IF io = "ok"
               THEN /\ outFile' = "written"
                    /\ pc' = "returned"
                    /\ fillStatus' = "ok"
                    /\ UNCHANGED error
               ELSE /\ error' = "cannot write the output"
                    /\ pc' = "raised"
                    /\ fillStatus' = "failed"
                    /\ UNCHANGED outFile
  /\ UNCHANGED <<payrolls, configFile, defaults, gui, args, df, employees, num_pages,
                 page_idx, grand,
                 notice, saved>>

ClearLocals ==
  /\ args' = NoArgs /\ df' = <<>> /\ employees' = <<>> /\ num_pages' = 0 /\ page_idx' = 0
  /\ filled_pages' = <<>> /\ grand' = ZeroTotals /\ writer' = NoWriter /\ error' = ""

\* run_fill() after fill_de9c has returned: save the entries as defaults,
\* then report success.  An exception of save_defaults would reach the
\* except clause of run_fill.
RunFillDone ==
  /\ pc = "returned"
  /\ \E io \in IoOutcomes :
       LET r == save_defaults(configFile,
                              SavedSettings(year_var, qtr_var, acct_var, name_var,
                                            title_var, phone_var),
                              io)
       IN /\ configFile' = r.file
          /\ saved' = io
          /\ notice' = IF r.raised THEN ShowError("cannot save the defaults")
                       ELSE ShowInfo("DE-9C PDF created successfully!")
  /\ ClearLocals
  /\ pc' = "idle"
  /\ UNCHANGED <<payrolls, defaults, outFile, gui, fillStatus>>

\* run_fill(), "except Exception as e": the error box.
RunFillExcept ==
  /\ pc = "raised"
  /\ notice' = ShowError(error)
  /\ ClearLocals
  /\ pc' = "idle"
  /\ UNCHANGED <<payrolls, configFile, defaults, outFile, gui, fillStatus, saved>>

Next ==
  \/ RunGui
  \/ browse_csv
  \/ browse_pdf
  \/ browse_out
  \/ EditYear
  \/ EditQuarter
  \/ run_fill
  \/ FillLoad
  \/ FillPage
  \/ FillFinish
  \/ RunFillDone
  \/ RunFillExcept

Spec == Init /\ [][Next]_vars

SpecSettings == InitSettings /\ [][Next]_vars

\* ------------------------------------------------------------------------
\* Properties
\* ------------------------------------------------------------------------

\* The template of the running call, as PdfReader reads it.
Template == PdfFile(pdf_var).annots

\* Exceptions that come from the files, not from the data.
FileErrors == {"cannot read the CSV", "cannot read the template", "cannot write the output"}

\* fill_de9c has ended, and no file failed it.
Ended == pc \in {"returned", "raised"} /\ error \notin FileErrors

\* The least k with k * d >= n.
CeilDiv(n, d) == CHOOSE k \in 0..n : k * d >= n /\ \A j \in 0..(k - 1) : j * d < n

\* The value of the field called name (in the template) on page p of the
\* written document.
Written(p, name) == writer.pages[p][Lookup(Template, name)].V

RowSuffix(r) == IF r = 1 THEN "" ELSE ToString(r - 1)

RowsBlank(p, rows) ==
  \A r \in rows : \A j \in 1..7 :
    InLookup(Template, FIELD_MAP[j] \o RowSuffix(r)) =>
      Written(p, FIELD_MAP[j] \o RowSuffix(r)) = ""

PagesAndBlankRows ==
  /\ Len(writer.pages) = CeilDiv(Len(df), 7)
  /\ \A p \in 1..Len(writer.pages) :
       LET onPage == IF p < Len(writer.pages) THEN 7 ELSE Len(df) - 7 * (p - 1)
       IN RowsBlank(p, (onPage + 1)..7)

C2_ZeroEmployeesOnePage ==
  (Ended /\ Len(df) = 0) =>
     (pc = "returned" /\ Len(writer.pages) = 1 /\ RowsBlank(1, 1..7))

\* The amount a written total shows, in cents.
Cents(x) == (x.m + 5) \div 10

RECURSIVE PageTotalCents(_, _)
PageTotalCents(p, c) ==
  IF p = 0 THEN 0 ELSE PageTotalCents(p - 1, c) + Cents(filled_pages[p].totals[c])

\* C3: for every input, N = 0 included, the grand total written for a
\* column equals the sum of the page subtotals written for that column.
C3_GrandTotalIsSumOfPageTotals ==
  Ended =>
    /\ pc = "returned"
    /\ \A c \in 1..3 :
         (InLookup(Template, GrandTotalFields[c]) /\ InLookup(Template, PageTotalFields[c])) =>
           /\ \A p \in 1..Len(writer.pages) :
                Written(p, PageTotalFields[c]) = FormatMoney(filled_pages[p].totals[c])
           /\ \A p \in 1..Len(writer.pages) : ~filled_pages[p].totals[c].nan
           /\ Written(1, GrandTotalFields[c])
                = FormatMoney(Amount(10 * PageTotalCents(Len(writer.pages), c)))

NamesOn(p) == {writer.pages[p][i].T : i \in {j \in 1..Len(writer.pages[p]) : writer.pages[p][j].hasT}}

\* C4: no field name of a page p >= 2 occurs among the field names of
\* page 1, whatever the template's field names.
C4_PageNamesDistinct ==
  pc = "returned" => \A p \in 2..Len(writer.pages) : NamesOn(p) \cap NamesOn(1) = {}

\* A monetary cell of the CSV that holds a number (after the currency sign
\* and the commas are dropped).
Parseable(cell) == Len(cell) > 0 /\ IsDecimal(clean_money(cell))

RECURSIVE ParseableSum(_, _, _, _)
ParseableSum(rows, c, from, to) ==
  IF from > to THEN 0
  ELSE (IF Parseable(rows[to].money[c]) THEN Thousandths(clean_money(rows[to].money[c])) ELSE 0)
       + ParseableSum(rows, c, from, to - 1)

\* C5: a missing or unparseable monetary cell adds exactly zero to its page
\* subtotal and to the grand total: the totals are the sums of the
\* parseable cells.
C5_BadCellsCountZero ==
  pc = "returned" =>
    \A c \in 1..3 :
      /\ grand[c] = Amount(ParseableSum(df, c, 1, Len(df)))
      /\ \A p \in 1..Len(filled_pages) :
           filled_pages[p].totals[c]
             = Amount(ParseableSum(df, c, 7 * (p - 1) + 1,
                                   IF 7 * p < Len(df) THEN 7 * p ELSE Len(df)))

\* The entries that run_fill must turn down.
BadInputs ==
  \/ csv_var = "" \/ pdf_var = "" \/ out_var = ""
  \/ ~IntParses(year_var)
  \/ ~IntParses(qtr_var)
  \/ IntOf(qtr_var) \notin {1, 2, 3, 4}

\* C6: when a path is empty, the year is no integer or the quarter is not
\* one of 1..4, a click on GENERATE shows an error and starts nothing:
\* fill_de9c is not called, no output and no settings file is written.
C6_BadInputsStartNothing ==
  [][(pc = "idle" /\ BadInputs /\ gui' = gui) =>
       /\ pc' = "idle"
       /\ notice'.kind = "error"
       /\ fillStatus' = "none" /\ saved' = "none"
       /\ outFile' = outFile /\ configFile' = configFile]_vars

C6_Witness ==
  /\ pc = "idle" /\ csv_var # "" /\ pdf_var # "" /\ out_var # ""
  /\ IntParses(year_var) /\ qtr_var = <<"5">>
  /\ notice = ShowError("Quarter must be 1-4.") /\ fillStatus = "none"

\* C7: save_defaults is called only after fill_de9c has returned without
\* error, and after such a return the success box is shown whatever the
\* outcome of the save.
C7_SaveAfterSuccessOnly ==
  /\ saved # "none" => fillStatus = "ok"
  /\ (pc = "idle" /\ fillStatus = "ok") => (saved # "none" /\ notice.kind = "info")
  /\ (pc = "idle" /\ fillStatus # "ok") => notice.kind # "info"

C7_Witness ==
  /\ pc = "idle" /\ fillStatus = "ok" /\ saved = "dump" /\ configFile = Garbage
  /\ notice.kind = "info"

KeepsTemplateValue(p, names) ==
  \A n \in 1..Len(names) :
    InLookup(Template, names[n]) =>
      Written(p, names[n]) = Template[Lookup(Template, names[n])].V

\* C8 as stated: header and signature fields are written on the first page
\* only; on every later page they keep the template's value.
C8_HeaderOnFirstPageOnly ==
  pc = "returned" =>
    \A p \in 2..Len(writer.pages) : KeepsTemplateValue(p, HeaderFields \o SignatureFields)

\* C8, amended: the signature fields (and the grand totals) are written on
\* the first page only and keep the template's value on every later page;
\* the header fields are written on every page, Page number with the
\* page's own number.
C8_SignatureOnFirstPageOnly ==
  pc = "returned" =>
    /\ \A p \in 2..Len(writer.pages) : KeepsTemplateValue(p, SignatureFields \o GrandTotalFields)
    /\ InLookup(Template, "Signature1") => Written(1, "Signature1") = args.sig_name
    /\ InLookup(Template, "Date5") => Written(1, "Date5") = args.sig_date
    /\ \A p \in 1..Len(writer.pages) :
         /\ \A n \in 1..Len(HeaderFields) :
              InLookup(Template, HeaderFields[n]) => Written(p, HeaderFields[n]) # "stale"
         /\ InLookup(Template, "Page number") => Written(p, "Page number") = ToString(p)
         /\ InLookup(Template, "Of Page number") =>
              Written(p, "Of Page number") = ToString(Len(writer.pages))
         /\ InLookup(Template, "Quarter") => Written(p, "Quarter") = ToString(args.quarter)

C8_Witness ==
  /\ pc = "returned" /\ pdf_var = "de9c.pdf" /\ Len(writer.pages) = 3
  /\ Written(3, "Page number") = "3" /\ Written(3, "Signature1") = "stale"
  /\ Written(1, "Signature1") = name_var

KeysOf(file) == {file.items[i][1] : i \in 1..Len(file.items)}

\* C9: load_defaults returns all six keys; it returns the built-in
\* defaults exactly when the settings file is absent or is not a valid JSON
\* object, and for a JSON object every key it lacks keeps its default.
C9_LoadDefaultsFallsBack ==
  [][pc = "boot" =>
       /\ SettingsKeys \subseteq DOMAIN defaults'
       /\ configFile.kind # "object" => defaults' = BuiltinDefaults
       /\ configFile.kind = "object" =>
            \A k \in SettingsKeys \ KeysOf(configFile) : defaults'[k] = BuiltinDefaults[k]]_vars

RECURSIVE SizesSum(_)
SizesSum(p) == IF p = 0 THEN 0 ELSE SizesSum(p - 1) + Len(filled_pages[p].page_emps)

\* C10: for N >= 1 the pages partition the employee list in order: every
\* page holds 1 to 7 employees, the sizes sum to N, and the employee at CSV
\* position i (from 0) is written on page floor(i/7)+1 in row (i mod 7)+1,
\* under the suffix "" for row 1 and str(k-1) for row k > 1, and nowhere
\* else.
C10_PagesPartitionEmployees ==
  pc = "returned" =>
    /\ Len(employees) >= 1 /\ Len(employees) = Len(df)
    /\ Len(filled_pages) = Len(writer.pages)
    /\ \A p \in 1..Len(filled_pages) :
         Len(filled_pages[p].page_emps) >= 1 /\ Len(filled_pages[p].page_emps) <= 7
    /\ SizesSum(Len(filled_pages)) = Len(employees)
    /\ \A i \in 0..(Len(employees) - 1) :
         LET p == (i \div 7) + 1
             k == (i % 7) + 1
         IN /\ p <= Len(filled_pages)
            /\ filled_pages[p].page_emps[k] = employees[i + 1]
            /\ employees[i + 1].ident[1] = df[i + 1].SSN
            /\ \A j \in 1..7 :
                 InLookup(Template, FIELD_MAP[j] \o RowSuffix(k)) =>
                   Written(p, FIELD_MAP[j] \o RowSuffix(k)) = EmpText(employees[i + 1], j)
    /\ \A p \in 1..Len(writer.pages) : \A k \in 1..7 :
         InLookup(Template, "SSN" \o RowSuffix(k)) =>
           Written(p, "SSN" \o RowSuffix(k))
             = (IF 7 * (p - 1) + k <= Len(df) THEN df[7 * (p - 1) + k].SSN ELSE "")

C10_Witness ==
  /\ pc = "returned" /\ Len(employees) = 15 /\ pdf_var = "de9c.pdf"
  /\ Written(3, "SSN") = "S15" /\ Written(2, "Last Name6") = "L14"

====
